---- MODULE Spec2Model ----
(***************************************************************************)
(* Model of gns3/modules/virtualbox/__init__.py: the VirtualBox module of  *)
(* the GNS3 GUI.  The module keeps a dictionary of VM templates keyed by   *)
(* "server:vmname" (persisted in the "VirtualBoxVMs" settings group), a    *)
(* list of the nodes of the open topology, and configures a node from a    *)
(* template in setupNode.                                                  *)
(***************************************************************************)
EXTENDS Integers, Sequences, FiniteSets, TLC

VARIABLES
    store,           \* the "VirtualBoxVMs" group of QSettings: the VM array, in order
    virtualbox_vms,  \* self._virtualbox_vms: ordered dictionary, <<[key, info], ...>>
    nodes,           \* self._nodes: list of node ids
    objs,            \* the node objects: server, settings()["vmname"], template used
    added,           \* history: nodes added and not removed since the last reset
    last             \* history: the last call of createNode / setupNode / setVirtualBoxVMs

vars == <<store, virtualbox_vms, nodes, objs, added, last>>

(***************************************************************************)
(* Bounds of the model.                                                    *)
(***************************************************************************)
MaxVMs == 2        \* templates in a collection passed to setVirtualBoxVMs
MaxNodes == 2      \* node objects ever constructed
MaxRegistry == 2   \* length of self._nodes
MaxRecords == 3    \* records of the persisted VM array at start-up

(***************************************************************************)
(* Servers: one local server and one remote server.                        *)
(***************************************************************************)
Servers == {"L", "R"}
host(s) == IF s = "L" THEN "h1" ELSE "h2"
isLocal(s) == s = "L"

NodeIds == 1..MaxNodes
NoNode == 0

(***************************************************************************)
(* Template settings schema (settings.py): names, defaults and types.      *)
(***************************************************************************)
VBOX_VM_SETTINGS ==
    [vmname |-> "", server |-> "local", linked_base |-> FALSE, adapters |-> 1]
VBOX_VM_SETTING_TYPES ==
    [vmname |-> "str", server |-> "str", linked_base |-> "bool", adapters |-> "int"]
\* the names of VirtualBoxVM.settings()
NodeSettingNames == {"name", "vmname", "adapters"}

(***************************************************************************)
(* QSettings keeps every value as text; value(name, default, type) parses  *)
(* it back according to the type.                                          *)
(***************************************************************************)
Stored(value, type) ==
    IF type = "bool" THEN (IF value THEN "true" ELSE "false")
    ELSE IF type = "int" THEN ToString(value)
    ELSE value

Typed(text, type) ==
    IF type = "bool" THEN text = "true"
    ELSE IF type = "int" THEN
        IF \E i \in 0..9 : ToString(i) = text
        THEN CHOOSE i \in 0..9 : ToString(i) = text
        ELSE 0
    ELSE text

\* settings.value(name, default, type) on one record of the array
SettingsValue(rec, name, default, type) ==
    IF name \in DOMAIN rec THEN Typed(rec[name], type) ELSE default

\* settings.value(name): the raw text, or "" (None) when the key is absent
RawValue(rec, name) == IF name \in DOMAIN rec THEN rec[name] ELSE ""

\* "{server}:{vmname}".format(server=server, vmname=vmname)
Key(server, vmname) == server \o ":" \o vmname

\* the keys of an ordered dictionary, and the value kept under a key
Keys(vms) == {vms[i].key : i \in 1..Len(vms)}
Get(vms, key) == vms[CHOOSE i \in 1..Len(vms) : vms[i].key = key].info

(***************************************************************************)
(* _loadVirtualBoxVMs: reads the array in order; a record whose key is     *)
(* already loaded, or whose vmname or server is empty, is skipped.         *)
(***************************************************************************)
RECURSIVE LoadFrom(_, _, _)
LoadFrom(recs, index, vms) ==
    IF index > Len(recs) THEN vms
    ELSE LET vmname == RawValue(recs[index], "vmname")
             server == RawValue(recs[index], "server")
             key == Key(server, vmname)
         IN IF key \in Keys(vms) \/ vmname = "" \/ server = ""
            THEN LoadFrom(recs, index + 1, vms)
            ELSE LoadFrom(recs, index + 1,
                     Append(vms, [key |-> key,
                                  info |-> [name \in DOMAIN VBOX_VM_SETTINGS |->
                                      SettingsValue(recs[index], name,
                                                    VBOX_VM_SETTINGS[name],
                                                    VBOX_VM_SETTING_TYPES[name])]]))

_loadVirtualBoxVMs(recs, vms) == LoadFrom(recs, 1, vms)

(***************************************************************************)
(* _saveVirtualBoxVMs: settings.remove("") empties the group, then every   *)
(* template is written at its own array index.                             *)
(***************************************************************************)
SaveIndexStuck(old, vms) ==
    IF Len(vms) = 0 THEN <<>>
    ELSE <<[name \in DOMAIN vms[Len(vms)].info |->
              Stored(vms[Len(vms)].info[name], VBOX_VM_SETTING_TYPES[name])]>>

_saveVirtualBoxVMs(old, vms) ==
    [index \in 1..Len(vms) |->
        [name \in DOMAIN vms[index].info |->
            Stored(vms[index].info[name], VBOX_VM_SETTING_TYPES[name])]]

(***************************************************************************)
(* setupNode, lines 207-233: the template selected for a node.             *)
(*   node_name = "" stands for no name; choice is what the user answers    *)
(*   when QInputDialog.getItem is shown ("" stands for Cancel).            *)
(***************************************************************************)
NoError == "ok"
NoTemplateAvailable == "No VirtualBox VM on server"
SelectionCancelled == "Please select a VirtualBox VM"
TemplateAlreadyInUse == "Sorry a VirtualBox VM can only be used once in your topology"
ServerUnreachable == "Could not connect to server"
Errors == {NoTemplateAvailable, SelectionCancelled, TemplateAlreadyInUse, ServerUnreachable}

\* lines 208-211: the last template, in dictionary order, whose vmname is node_name
NamedVMByKey(vms, node_name) ==
    LET hits == {i \in 1..Len(vms) : node_name = vms[i].key}
    IN IF node_name = "" \/ hits = {} THEN ""
       ELSE vms[CHOOSE i \in hits : \A j \in hits : j <= i].key

NamedVM(vms, node_name) ==
    LET hits == {i \in 1..Len(vms) : node_name = vms[i].info.vmname}
    IN IF node_name = "" \/ hits = {} THEN ""
       ELSE vms[CHOOSE i \in hits : \A j \in hits : j <= i].key

\* lines 214-217: the templates of the node's server
SelectedVMsLocalAnywhere(vms, server) ==
    {vms[i].key : i \in {j \in 1..Len(vms) :
        vms[j].info.server = host(server) \/ vms[j].info.server = "local"}}

SelectedVMs(vms, server) ==
    {vms[i].key : i \in {j \in 1..Len(vms) :
        vms[j].info.server = host(server)
        \/ (isLocal(server) /\ vms[j].info.server = "local")}}

\* lines 207-233: [error, vm, prompted]
SelectVM(vms, server, node_name, choice) ==
    LET vm == NamedVM(vms, node_name)
        selected_vms == SelectedVMs(vms, server)
    IN IF vm # "" THEN [error |-> NoError, vm |-> vm, prompted |-> FALSE]
       ELSE IF selected_vms = {}
            THEN [error |-> NoTemplateAvailable, vm |-> "", prompted |-> FALSE]
       ELSE IF Cardinality(selected_vms) > 1
            THEN IF choice \in selected_vms
                 THEN [error |-> NoError, vm |-> choice, prompted |-> TRUE]
                 ELSE [error |-> SelectionCancelled, vm |-> "", prompted |-> TRUE]
       ELSE [error |-> NoError, vm |-> CHOOSE k \in selected_vms : TRUE,
             prompted |-> FALSE]

\* lines 237-239: a node of self._nodes already uses the VM of template info
InUseHostOnly(info, registry, objects) ==
    \E i \in 1..Len(registry) :
        LET other_node == objects[registry[i]]
        IN other_node.vmname = info.vmname
           /\ info.server = host(other_node.server)

InUse(info, registry, objects) ==
    \E i \in 1..Len(registry) :
        LET other_node == objects[registry[i]]
        IN other_node.vmname = info.vmname
           /\ ((info.server = "local" /\ isLocal(other_node.server))
               \/ info.server = host(other_node.server))

\* lines 242-245: the template's settings that the node has too
AdditionalSettings(info) ==
    [setting_name \in (DOMAIN info) \cap NodeSettingNames |-> info[setting_name]]

NoSettings == [setting_name \in {} |-> ""]

Failure(error, prompted) ==
    [result |-> error, vm |-> "", vmname |-> "", linked_clone |-> FALSE,
     settings |-> NoSettings, prompted |-> prompted, setup_called |-> FALSE]

\* lines 207-248: what setupNode(node, node_name) does, as a value
SetupBeforeCheck(vms, registry, objects, node, node_name, choice) ==
    LET sel == SelectVM(vms, objects[node].server, node_name, choice)
    IN IF sel.error # NoError THEN Failure(sel.error, sel.prompted)
       ELSE LET info == Get(vms, sel.vm)
            IN [result |-> IF ~info.linked_base /\ InUse(info, registry, objects)
                           THEN TemplateAlreadyInUse ELSE NoError,
                vm |-> sel.vm, vmname |-> info.vmname,
                linked_clone |-> info.linked_base,
                settings |-> AdditionalSettings(info),
                prompted |-> sel.prompted, setup_called |-> TRUE]

SetupIgnoresLinkedBase(vms, registry, objects, node, node_name, choice) ==
    LET sel == SelectVM(vms, objects[node].server, node_name, choice)
    IN IF sel.error # NoError THEN Failure(sel.error, sel.prompted)
       ELSE LET info == Get(vms, sel.vm)
            IN IF InUse(info, registry, objects)
               THEN Failure(TemplateAlreadyInUse, sel.prompted)
               ELSE [result |-> NoError, vm |-> sel.vm, vmname |-> info.vmname,
                     linked_clone |-> info.linked_base,
                     settings |-> AdditionalSettings(info),
                     prompted |-> sel.prompted, setup_called |-> TRUE]

SetupOutcome(vms, registry, objects, node, node_name, choice) ==
    LET sel == SelectVM(vms, objects[node].server, node_name, choice)
    IN IF sel.error # NoError THEN Failure(sel.error, sel.prompted)
       ELSE LET info == Get(vms, sel.vm)
                linked_base == info.linked_base
            IN IF ~linked_base /\ InUse(info, registry, objects)
               THEN Failure(TemplateAlreadyInUse, sel.prompted)
               ELSE [result |-> NoError, vm |-> sel.vm, vmname |-> info.vmname,
                     linked_clone |-> linked_base,
                     settings |-> AdditionalSettings(info),
                     prompted |-> sel.prompted, setup_called |-> TRUE]

\* node.setup(vmname, linked_clone, additional_settings): the node takes the VM
NodeSetup(object, out) ==
    [object EXCEPT !.vmname = out.vmname, !.tmpl = out.vm]

(***************************************************************************)
(* Inputs.  A collection passed to setVirtualBoxVMs is the dictionary the  *)
(* preferences page builds: every template has all the schema's settings, *)
(* a vmname and a server, and is kept under Key(server, vmname).           *)
(***************************************************************************)
Collections(infos) ==
    LET seqs == UNION {[1..n -> infos] : n \in 0..MaxVMs}
        distinct == {c \in seqs : \A i, j \in 1..Len(c) :
                        i # j => Key(c[i].server, c[i].vmname)
                                 # Key(c[j].server, c[j].vmname)}
    IN {[i \in 1..Len(c) |->
            [key |-> Key(c[i].server, c[i].vmname), info |-> c[i]]] : c \in distinct}

VMNames == {"a", "b"}
Templates ==
    {[vmname |-> t[1], server |-> t[2], linked_base |-> lb, adapters |-> t[3]] :
        t \in {<<"a", "local", 1>>, <<"b", "local", 2>>, <<"a", "h2", 2>>},
        lb \in BOOLEAN}
VMCollections == Collections(Templates)

NoOutcome == Failure("", FALSE)
NoCall ==
    [op |-> "", node |-> NoNode, name |-> "", choice |-> "", pre_vmname |-> "",
     out |-> NoOutcome, made |-> NoNode, reconnects |-> 0,
     saved |-> <<>>, reloaded |-> FALSE]

NoObject == [server |-> "", vmname |-> "", tmpl |-> ""]

(***************************************************************************)
(* VirtualBox.__init__: empty registries, then the templates are loaded.   *)
(***************************************************************************)
Init ==
    /\ store \in {_saveVirtualBoxVMs(<<>>, c) : c \in VMCollections}
    /\ virtualbox_vms = _loadVirtualBoxVMs(store, <<>>)
    /\ nodes = <<>>
    /\ objs = [n \in NodeIds |-> NoObject]
    /\ added = {}
    /\ last = NoCall

\* setVirtualBoxVMs(new_virtualbox_vms), lines 133-134: a method of an
\* instance, so it follows the instance's construction
setVirtualBoxVMs(new_virtualbox_vms) ==
    /\ last.op # "new"
    /\ virtualbox_vms' = new_virtualbox_vms
    /\ store' = _saveVirtualBoxVMs(store, new_virtualbox_vms)
    /\ last' = [NoCall EXCEPT !.op = "setVirtualBoxVMs", !.saved = new_virtualbox_vms]
    /\ UNCHANGED <<nodes, objs, added>>

\* addNode(node), line 143
addNode(node) ==
    /\ objs[node] # NoObject
    /\ Len(nodes) < MaxRegistry
    /\ nodes' = Append(nodes, node)
    /\ added' = added \cup {node}
    /\ last' = NoCall
    /\ UNCHANGED <<store, virtualbox_vms, objs>>

\* list.remove(x): the first occurrence of x is taken out
ListRemove(list, x) ==
    LET first == CHOOSE i \in 1..Len(list) :
                     list[i] = x /\ \A j \in 1..(i - 1) : list[j] # x
    IN [i \in 1..(Len(list) - 1) |-> IF i < first THEN list[i] ELSE list[i + 1]]

\* removeNode(node), lines 152-153
removeNode(node) ==
    /\ objs[node] # NoObject
    /\ nodes' = IF \E i \in 1..Len(nodes) : nodes[i] = node
                THEN ListRemove(nodes, node) ELSE nodes
    /\ added' = added \ {node}
    /\ last' = NoCall
    /\ UNCHANGED <<store, virtualbox_vms, objs>>

\* reset(), line 255
reset ==
    /\ nodes' = <<>>
    /\ added' = {}
    /\ last' = NoCall
    /\ UNCHANGED <<store, virtualbox_vms, objs>>

\* node_class(self, server, project): the next node object, on the given server
Construct(server, reconnects) ==
    /\ \E n \in NodeIds : objs[n] = NoObject
    /\ LET node == CHOOSE n \in NodeIds :
                       objs[n] = NoObject /\ \A m \in NodeIds : objs[m] = NoObject => n <= m
       IN /\ objs' = [objs EXCEPT ![node] = [NoObject EXCEPT !.server = server]]
          /\ last' = [NoCall EXCEPT !.op = "createNode", !.made = node,
                                    !.reconnects = reconnects,
                                    !.out = Failure(NoError, FALSE)]

\* createNode(node_class, server, project), lines 185-195
\*   is_connected: what server.connected() answers;
\*   reconnect_ok: whether server.reconnect() returns (or raises OSError)
createNode(server, is_connected, reconnect_ok) ==
    /\ \/ /\ is_connected
          /\ reconnect_ok
          /\ Construct(server, 0)
       \/ /\ ~is_connected
          /\ reconnect_ok
          /\ Construct(server, 1)
       \/ /\ ~is_connected
          /\ ~reconnect_ok
          /\ last' = [NoCall EXCEPT !.op = "createNode", !.reconnects = 1,
                                    !.out = Failure(ServerUnreachable, FALSE)]
          /\ UNCHANGED objs
    /\ UNCHANGED <<store, virtualbox_vms, nodes, added>>

\* setupNode(node, node_name), lines 207-248
setupNode(node, node_name, choice) ==
    /\ objs[node] # NoObject
    /\ LET out == SetupOutcome(virtualbox_vms, nodes, objs, node, node_name, choice)
       IN /\ choice # "" => (out.prompted /\ out.vm = choice)
          /\ objs' = IF out.setup_called
                     THEN [objs EXCEPT ![node] = NodeSetup(objs[node], out)]
                     ELSE objs
          /\ last' = [NoCall EXCEPT !.op = "setupNode", !.node = node,
                                    !.name = node_name, !.choice = choice,
                                    !.pre_vmname = objs[node].vmname, !.out = out]
    /\ UNCHANGED <<store, virtualbox_vms, nodes, added>>

Next ==
    \/ \E c \in VMCollections : setVirtualBoxVMs(c)
    \/ \E node \in NodeIds : addNode(node)
    \/ \E node \in NodeIds : removeNode(node)
    \/ reset
    \/ \E server \in Servers, is_connected, reconnect_ok \in BOOLEAN :
          createNode(server, is_connected, reconnect_ok)
    \/ \E node \in NodeIds, node_name \in VMNames \cup {""},
          choice \in Keys(virtualbox_vms) \cup {""} :
              setupNode(node, node_name, choice)

Spec == Init /\ [][Next]_vars

(***************************************************************************)
(* The settings file across program runs: the VM array found at start-up   *)
(* is whatever the file holds (written by an earlier version, or by hand), *)
(* a new VirtualBox() loads it, and setVirtualBoxVMs rewrites it.          *)
(***************************************************************************)
StoreRecords ==
    LET pairs == [vmname : {"", "v", "1:v"}, server : {"", "h", "h:1"}]
        named == {r \in pairs : r.vmname # "" /\ r.server # ""}
    IN pairs \cup {[vmname |-> r.vmname, server |-> r.server, linked_base |-> "true"] :
                       r \in named}
StoreContents == UNION {[1..n -> StoreRecords] : n \in 0..MaxRecords}

StoreTemplates ==
    [vmname : {"v", "1:v"}, server : {"h", "h:1"}, linked_base : BOOLEAN, adapters : {2}]
StoreCollections == Collections(StoreTemplates)

InitStore ==
    /\ store \in StoreContents
    /\ virtualbox_vms = <<>>
    /\ nodes = <<>>
    /\ objs = [n \in NodeIds |-> NoObject]
    /\ added = {}
    /\ last = [NoCall EXCEPT !.op = "new"]

\* VirtualBox(), lines 44-51: a new instance of the module, in a new run
__init__ ==
    /\ virtualbox_vms' = _loadVirtualBoxVMs(store, <<>>)
    /\ nodes' = <<>>
    /\ added' = {}
    /\ last' = [NoCall EXCEPT !.op = "__init__",
                              !.saved = IF last.op = "setVirtualBoxVMs"
                                        THEN last.saved ELSE <<>>,
                              !.reloaded = (last.op = "setVirtualBoxVMs")]
    /\ UNCHANGED <<store, objs>>

NextStore ==
    \/ __init__
    \/ \E c \in StoreCollections : setVirtualBoxVMs(c)

SpecStore == InitStore /\ [][NextStore]_vars

(***************************************************************************)
(* Properties.                                                             *)
(***************************************************************************)
\* the node objects as they were when the last setupNode was called
PreObjs == [objs EXCEPT ![last.node].vmname = last.pre_vmname]

\* the selection of the last setupNode call
LastSelection ==
    SelectVM(virtualbox_vms, objs[last.node].server, last.name, last.choice)

\* a node of the registry had the vmname of template info, on the template's server
RegisteredUser(info) ==
    \E i \in 1..Len(nodes) :
        /\ PreObjs[nodes[i]].vmname = info.vmname
        /\ \/ info.server = host(PreObjs[nodes[i]].server)
           \/ (info.server = "local" /\ isLocal(PreObjs[nodes[i]].server))

\* C1: a template whose linked_base is false never backs two distinct nodes
\* of the registry that were both set up from it.
C1_SingleUse ==
    \A i, j \in 1..Len(nodes) :
        LET key == objs[nodes[i]].tmpl
        IN (/\ nodes[i] # nodes[j]
            /\ key # ""
            /\ key = objs[nodes[j]].tmpl
            /\ key \in Keys(virtualbox_vms))
           => Get(virtualbox_vms, key).linked_base

C2_Case ==
    /\ last.op = "setupNode"
    /\ LastSelection.error = NoError
    /\ ~Get(virtualbox_vms, LastSelection.vm).linked_base
    /\ RegisteredUser(Get(virtualbox_vms, LastSelection.vm))

C3_Case ==
    /\ last.op = "setupNode"
    /\ LastSelection.error = NoError
    /\ Get(virtualbox_vms, LastSelection.vm).linked_base

\* C3: when setupNode selects a template with linked_base true it calls
\* node.setup with linked_clone true, whatever the registry holds.
C3_LinkedBaseSucceeds ==
    C3_Case => (/\ last.out.result = NoError
                /\ last.out.setup_called
                /\ last.out.linked_clone
                /\ last.out.vm = LastSelection.vm)

C3_Witness ==
    /\ C3_Case
    /\ last.out.result = NoError
    /\ RegisteredUser(Get(virtualbox_vms, LastSelection.vm))
    /\ \E i \in 1..Len(nodes) : nodes[i] # last.node
                                /\ objs[nodes[i]].tmpl = LastSelection.vm

NameMatches == {i \in 1..Len(virtualbox_vms) : virtualbox_vms[i].info.vmname = last.name}

C4_Case ==
    /\ last.op = "setupNode"
    /\ last.name # ""
    /\ Cardinality(NameMatches) = 1

\* C4: a node_name that is the vmname of exactly one template selects that
\* template, for a node of any server and without a prompt: its vmname,
\* linked_base and settings reach node.setup, or it is the one the
\* uniqueness check refuses.
C4_NamedTemplate ==
    C4_Case =>
        LET t == virtualbox_vms[CHOOSE i \in NameMatches : TRUE]
        IN /\ ~last.out.prompted
           /\ last.out.result \in {NoError, TemplateAlreadyInUse}
           /\ last.out.result = NoError =>
                 /\ last.out.setup_called
                 /\ last.out.vm = t.key
                 /\ last.out.vmname = t.info.vmname
                 /\ last.out.linked_clone = t.info.linked_base
                 /\ last.out.settings = [vmname |-> t.info.vmname,
                                         adapters |-> t.info.adapters]
           /\ last.out.result = TemplateAlreadyInUse =>
                 (~t.info.linked_base /\ RegisteredUser(t.info))

C4_Witness ==
    /\ C4_Case
    /\ last.out.result = NoError
    /\ LET t == virtualbox_vms[CHOOSE i \in NameMatches : TRUE]
           server == objs[last.node].server
       IN /\ t.info.server # host(server)
          /\ ~(t.info.server = "local" /\ isLocal(server))
          /\ SelectedVMs(virtualbox_vms, server) # {}

C5_Case ==
    /\ last.op = "setupNode"
    /\ last.name = ""
    /\ \A i \in 1..Len(virtualbox_vms) :
          LET info == virtualbox_vms[i].info
              server == objs[last.node].server
          IN /\ info.server # host(server)
             /\ ~(info.server = "local" /\ isLocal(server))

\* C5: with no node_name and no template of the node's server (its host, or
\* "local" for a local server), setupNode fails with NoTemplateAvailable and
\* node.setup is not called.
C5_NoTemplate ==
    C5_Case => (last.out.result = NoTemplateAvailable /\ ~last.out.setup_called)

C5_Witness ==
    C5_Case /\ virtualbox_vms # <<>> /\ last.out.result = NoTemplateAvailable

\* the (server, vmname) pair of a persisted record, and its typed settings
PairOf(rec) == <<RawValue(rec, "server"), RawValue(rec, "vmname")>>
SettingsOf(rec) ==
    [name \in DOMAIN VBOX_VM_SETTINGS |->
        SettingsValue(rec, name, VBOX_VM_SETTINGS[name], VBOX_VM_SETTING_TYPES[name])]

\* C6: loading the persisted records gives unique keys; a (server, vmname)
\* pair found in several records is loaded with the settings of its first
\* record; a record with an empty vmname or server is never loaded.
C6_FirstRecordWins ==
    last.op = "__init__" =>
        /\ Cardinality(Keys(virtualbox_vms)) = Len(virtualbox_vms)
        /\ \A i \in 1..Len(virtualbox_vms) :
              /\ virtualbox_vms[i].info.vmname # ""
              /\ virtualbox_vms[i].info.server # ""
        /\ \A i, j \in 1..Len(store) :
              (/\ i < j
               /\ PairOf(store[i]) = PairOf(store[j])
               /\ PairOf(store[i])[1] # ""
               /\ PairOf(store[i])[2] # ""
               /\ \A k \in 1..(i - 1) : PairOf(store[k]) # PairOf(store[i]))
              => LET key == Key(PairOf(store[i])[1], PairOf(store[i])[2])
                 IN /\ key \in Keys(virtualbox_vms)
                    /\ Get(virtualbox_vms, key) = SettingsOf(store[i])

\* the dictionary an ordered dictionary stands for
AsMap(vms) == {<<vms[i].key, vms[i].info>> : i \in 1..Len(vms)}

C8_RegistryMembership ==
    {nodes[i] : i \in 1..Len(nodes)} = added

\* C9: a second setupNode call with the same node, name and answer, on the
\* same registries, has the outcome of the first.
C9_Idempotent ==
    last.op = "setupNode" =>
        SetupOutcome(virtualbox_vms, nodes, objs, last.node, last.name, last.choice)
            = last.out

====
